---- MODULE Spec2Model ----
(***************************************************************************)
(* paperx (src/src/main.rs): engine resolution and one-shot build           *)
(* (pick_engine, cmd_build, guess_pdf_path), section splicing               *)
(* (cmd_add_section) and the debounced watch loop (cmd_watch).              *)
(*                                                                          *)
(* The commands are separate state machines, each with its specification:   *)
(*   SpecBuild    one cmd_build call, step by step                          *)
(*   SpecSection  a series of cmd_add_section calls on tex/main.tex         *)
(*   SpecWatch    cmd_watch with one notification-delivery context          *)
(*   SpecWatchConc  cmd_watch with two concurrent delivery contexts         *)
(***************************************************************************)
EXTENDS Integers, Sequences, FiniteSets, TLC

VARIABLES
    \* ---- cmd_build ----
    bpc,          \* position inside cmd_build
    engine_pref,  \* the EnginePref argument
    main_tex,     \* file stem of cfg.main_tex once paperx.toml is read
    present,      \* binaries `which` finds at the time pick_engine probes
    engine,       \* Result of pick_engine ("none" before the call)
    spawned,      \* subprocesses spawned by run(), in order
    status,       \* exit status of the subprocess ("none" before it exits)
    outtree,      \* content of outdir after the engine ran, in WalkDir order
    bres,         \* Result of cmd_build ("none" while it runs)
    \* ---- cmd_add_section ----
    main,         \* tex/main.tex, as its sequence of lines
    sections,     \* tex/sections/<name>.tex for each name: what the file holds
    calls,        \* the cmd_add_section calls made so far, with their results
    \* ---- cmd_watch ----
    session,      \* "starting", "watching" or "aborted"
    handlers,     \* the contexts that deliver notifications to the closure
    now,          \* the monotonic clock, in ms
    last,         \* the Instant inside the Mutex
    lock,         \* the context holding the Mutex (0: nobody)
    hpc,          \* position of each context inside the closure
    hev,          \* the log entry of the notification each context handles
    log           \* the notifications checked so far

bvars == <<bpc, engine_pref, main_tex, present, engine, spawned, status, outtree, bres>>

svars == <<main, sections, calls>>

wvars == <<session, handlers, now, last, lock, hpc, hev, log>>

vars == <<bvars, svars, wvars>>

\* ------------------------------------------------------------------ bounds

\* Upper bound on the number of entries below outdir.
MaxEntries == 3

\* Upper bound on the number of lines of tex/main.tex before the first call.
MaxDocLen == 3

\* Upper bound on the number of cmd_add_section calls.
MaxCalls == 2

\* Upper bound on the number of calls that meet an I/O failure.
MaxFaults == 1

\* Upper bound on the number of notifications of a watch session that has one
\* delivery context, and of one that has two.
MaxEvents == 3
MaxConcEvents == 2

\* The clock stops here (ms).
MaxTime == 1000

\* ------------------------------------------------------------- Result<T>

Ok(v) == [ok |-> TRUE, val |-> v, err |-> ""]
Err(e) == [ok |-> FALSE, val |-> "", err |-> e]

\* A call that has not returned yet.
None == Err("none")
Returned(r) == r.err # "none"

Min(S) == CHOOSE x \in S : \A y \in S : x <= y

\* ------------------------------------------------------------ pick_engine

EnginePref == {"Tectonic", "Latexmk", "Pdflatex", "Lualatex"}

Engines == {"tectonic", "latexmk", "pdflatex", "lualatex"}

\* A table whose last row lists tectonic before latexmk.
ordered_swapped(pref) ==
    CASE pref = "Tectonic" -> <<"tectonic", "latexmk", "pdflatex", "lualatex">>
      [] pref = "Latexmk"  -> <<"latexmk", "tectonic", "pdflatex", "lualatex">>
      [] pref = "Pdflatex" -> <<"pdflatex", "latexmk", "tectonic", "lualatex">>
      [] pref = "Lualatex" -> <<"lualatex", "tectonic", "latexmk", "pdflatex">>

ordered(pref) ==
    CASE pref = "Tectonic" -> <<"tectonic", "latexmk", "pdflatex", "lualatex">>
      [] pref = "Latexmk"  -> <<"latexmk", "tectonic", "pdflatex", "lualatex">>
      [] pref = "Pdflatex" -> <<"pdflatex", "latexmk", "tectonic", "lualatex">>
      [] pref = "Lualatex" -> <<"lualatex", "latexmk", "tectonic", "pdflatex">>

\* which(e).is_ok(): the binary is on PATH.
which(e, onPath) == e \in onPath

\* Mutant: returns the head of the list without probing it.
pick_engine_unprobed(pref, onPath) == Ok(ordered(pref)[1])

\* Mutant: probes the list from its tail.
pick_engine_reversed(pref, onPath) ==
    LET o == ordered(pref)
        hits == {i \in 1..Len(o) : which(o[i], onPath)}
    IN  IF hits = {} THEN Err("EngineNotFound")
        ELSE Ok(o[CHOOSE i \in hits : \A j \in hits : j <= i])

pick_engine(pref, onPath) ==
    LET o == ordered(pref)
        hits == {i \in 1..Len(o) : which(o[i], onPath)}
    IN  IF hits = {} THEN Err("EngineNotFound")
        ELSE Ok(o[Min(hits)])

\* --------------------------------------------------------- guess_pdf_path

\* A directory entry: the directories leading to it below outdir, its file
\* stem, its extension ("" when it has none) and whether it is a directory.
File(dirs, stem, ext) == [dirs |-> dirs, stem |-> stem, ext |-> ext, isDir |-> FALSE]
Dir(dirs, stem) == [dirs |-> dirs, stem |-> stem, ext |-> "", isDir |-> TRUE]

\* Path::new(outdir).join("main.pdf")
pdf_path == File(<<>>, "main", "pdf")

OutEntries ==
    { pdf_path,
      File(<<>>, "main", "log"),
      File(<<>>, "paper", "pdf"),
      Dir(<<>>, "sub"),
      File(<<"sub">>, "paper", "pdf") }

\* The entry that is the directory holding e (outdir itself holds the top level).
HasParent(e) == e.dirs # <<>>
Parent(e) == Dir(SubSeq(e.dirs, 1, Len(e.dirs) - 1), e.dirs[Len(e.dirs)])

IsPrefix(s, t) == Len(s) <= Len(t) /\ SubSeq(t, 1, Len(s)) = s

\* Is e inside directory d (at any depth)?
Inside(e, d) == IsPrefix(d.dirs \o <<d.stem>>, e.dirs)

\* The listings WalkDir can produce: no entry twice, and depth first, so an
\* entry follows its directory with only that directory's content between.
IsListing(s) ==
    /\ \A i, j \in 1..Len(s) : i # j => s[i] # s[j]
    /\ \A i \in 1..Len(s) :
          HasParent(s[i]) =>
             \E p \in 1..(i - 1) :
                /\ s[p] = Parent(s[i])
                /\ \A k \in (p + 1)..(i - 1) : Inside(s[k], s[p])

RECURSIVE SeqsUpTo(_, _)
SeqsUpTo(S, n) ==
    IF n = 0 THEN {<<>>}
    ELSE LET shorter == SeqsUpTo(S, n - 1)
         IN  shorter \cup {Append(s, x) : s \in {t \in shorter : Len(t) = n - 1}, x \in S}

Listings == {s \in SeqsUpTo(OutEntries, MaxEntries) : IsListing(s)}

\* WalkDir::new(outdir): outdir itself first, then its content.
Root == [dirs |-> <<>>, stem |-> "", ext |-> "", isDir |-> TRUE]
WalkDir(tree) == <<Root>> \o tree

exists(tree, p) == \E i \in 1..Len(tree) : tree[i] = p

\* Mutant: the scan returns the first entry whatever its extension.
guess_pdf_path_anyext(tree) ==
    IF exists(tree, pdf_path) THEN Ok(pdf_path)
    ELSE IF Len(tree) = 0 THEN Err("ArtifactNotFound")
    ELSE Ok(tree[1])

guess_pdf_path(tree) ==
    IF exists(tree, pdf_path) THEN Ok(pdf_path)
    ELSE LET w == WalkDir(tree)
             hits == {i \in 1..Len(w) : w[i].ext = "pdf"}
         IN  IF hits = {} THEN Err("ArtifactNotFound")
             ELSE Ok(w[Min(hits)])

\* -------------------------------------------------------------- cmd_build

\* The command line cmd_build builds for each engine.
Command(e) ==
    CASE e = "tectonic" -> [prog |-> "tectonic", shape |-> "-X compile --outdir"]
      [] e = "latexmk"  -> [prog |-> "latexmk", shape |-> "-pdf -output-directory="]
      [] e = "pdflatex" -> [prog |-> "pdflatex", shape |-> "-output-directory="]
      [] e = "lualatex" -> [prog |-> "lualatex", shape |-> "-output-directory="]

Stems == {"main", "paper"}

\* The variables of the commands that are not running.
NoBuild ==
    /\ bpc = "idle"
    /\ engine_pref = "Tectonic"
    /\ main_tex = "none"
    /\ present = {}
    /\ engine = None
    /\ spawned = <<>>
    /\ status = "none"
    /\ outtree = <<>>
    /\ bres = None

NoSection ==
    /\ main = <<>>
    /\ sections = <<>>
    /\ calls = <<>>

NoWatch ==
    /\ session = "none"
    /\ handlers = {}
    /\ now = 0
    /\ last = 0
    /\ lock = 0
    /\ hpc = <<>>
    /\ hev = <<>>
    /\ log = <<>>

BuildInit ==
    /\ bpc = "read_config"
    /\ engine_pref \in EnginePref
    /\ main_tex = "none"
    /\ present = {}
    /\ engine = None
    /\ spawned = <<>>
    /\ status = "none"
    /\ outtree = <<>>
    /\ bres = None
    /\ NoSection
    /\ NoWatch

BuildFail(e) ==
    /\ bpc' = "done"
    /\ bres' = Err(e)

\* let cfg = read_config()?;
ReadConfig ==
    /\ bpc = "read_config"
    /\ \/ /\ BuildFail("ConfigError")
          /\ UNCHANGED main_tex
       \/ /\ main_tex' \in Stems
          /\ bpc' = "check_main"
          /\ UNCHANGED bres
    /\ UNCHANGED <<engine_pref, present, engine, spawned, status, outtree>>
    /\ UNCHANGED <<svars, wvars>>

\* if !main.exists() { return Err(..) }  fs::create_dir_all(outdir)?;
CheckMain ==
    /\ bpc = "check_main"
    /\ \/ BuildFail("MainTexNotFound")
       \/ BuildFail("IoError")
       \/ /\ bpc' = "pick_engine"
          /\ UNCHANGED bres
    /\ UNCHANGED <<engine_pref, main_tex, present, engine, spawned, status, outtree>>
    /\ UNCHANGED <<svars, wvars>>

\* let engine = pick_engine(engine_pref)?;
PickEngine ==
    /\ bpc = "pick_engine"
    /\ \E onPath \in SUBSET Engines :
          /\ present' = onPath
          /\ engine' = pick_engine(engine_pref, onPath)
          /\ IF engine'.ok
                THEN bpc' = "run" /\ UNCHANGED bres
                ELSE BuildFail(engine'.err)
    /\ UNCHANGED <<engine_pref, main_tex, spawned, status, outtree>>
    /\ UNCHANGED <<svars, wvars>>

\* A build that, unlike run()'s "?", goes on after a non-zero exit status: it
\* starts the next candidate of the probe list too.
RunEngine_fallback ==
    /\ bpc = "run"
    /\ \/ /\ BuildFail("IoError")
          /\ UNCHANGED <<spawned, status, outtree>>
       \/ /\ outtree' \in Listings
          /\ \/ /\ status' = "failure"
                /\ \E other \in Engines \ {engine.val} :
                      spawned' = spawned \o <<Command(engine.val), Command(other)>>
                /\ BuildFail("EngineExecution")
             \/ /\ status' = "success"
                /\ spawned' = Append(spawned, Command(engine.val))
                /\ bpc' = "locate"
                /\ UNCHANGED bres
    /\ UNCHANGED <<engine_pref, main_tex, present, engine>>
    /\ UNCHANGED <<svars, wvars>>

\* match engine.as_str() { .. run(Command::new(..))?; .. }
\* run: cmd.status()? fails when the process cannot be started; a non-zero
\* exit status is "Command failed".
RunEngine ==
    /\ bpc = "run"
    /\ \/ /\ BuildFail("IoError")
          /\ UNCHANGED <<spawned, status, outtree>>
       \/ /\ spawned' = Append(spawned, Command(engine.val))
          /\ outtree' \in Listings
          /\ \/ /\ status' = "failure"
                /\ BuildFail("EngineExecution")
             \/ /\ status' = "success"
                /\ bpc' = "locate"
                /\ UNCHANGED bres
    /\ UNCHANGED <<engine_pref, main_tex, present, engine>>
    /\ UNCHANGED <<svars, wvars>>

\* if !pdf_path.exists() { let alt = guess_pdf_path(outdir)?; return Ok(alt); }
\* Ok(pdf_path)
LocateArtifact ==
    /\ bpc = "locate"
    /\ bpc' = "done"
    /\ bres' = IF ~exists(outtree, pdf_path) THEN guess_pdf_path(outtree)
               ELSE Ok(pdf_path)
    /\ UNCHANGED <<engine_pref, main_tex, present, engine, spawned, status, outtree>>
    /\ UNCHANGED <<svars, wvars>>

BuildNext ==
    \/ ReadConfig
    \/ CheckMain
    \/ PickEngine
    \/ RunEngine
    \/ LocateArtifact

SpecBuild == BuildInit /\ [][BuildNext]_vars

\* -------------------------------------------------------- cmd_add_section

\* A line of tex/main.tex; every line ends with a line feed.
MarkerLine == [kind |-> "marker", text |-> "% paperx:sections"]
\* A line the marker pattern matches as well: ^%\s*paperx:sections\s*$
LooseMarkerLine == [kind |-> "marker", text |-> "%paperx:sections  "]
BlankLine == [kind |-> "blank", text |-> ""]
TextLine == [kind |-> "text", text |-> "\\maketitle"]
\* A line the terminal pattern matches: ^\\end\{document\}
EndDocLine == [kind |-> "enddoc", text |-> "\\end{document}"]
IncludeLine == [kind |-> "text", text |-> "% paperx:include"]
InputLine(name) == [kind |-> "input", text |-> name]

\* format!("% paperx:include\n\\input{{sections/{}}}\n", file_name)
include_line(name) == <<IncludeLine, InputLine(name)>>

Names == {"a", "b"}

DocLines == {MarkerLine, LooseMarkerLine, BlankLine, TextLine, EndDocLine}

\* Regex::is_match / the first match of a pattern that is anchored to a line.
Matches(doc, kind) == {i \in 1..Len(doc) : doc[i].kind = kind}
is_match(doc, kind) == Matches(doc, kind) # {}
FirstMatch(doc, kind) == Min(Matches(doc, kind))

Rest(doc, from) == SubSeq(doc, from, Len(doc))

\* The white-space-only lines that directly follow line i: the marker
\* pattern's trailing \s* runs over line feeds, so it takes them in.
RECURSIVE BlankRun(_, _)
BlankRun(doc, i) ==
    IF i < Len(doc) /\ doc[i + 1].kind = "blank" THEN 1 + BlankRun(doc, i + 1) ELSE 0

\* Mutant: the directive is added below the directives already there.
replace_marker_append(doc, name) ==
    LET i == FirstMatch(doc, "marker")
        RECURSIVE Skip(_)
        Skip(j) == IF j + 2 <= Len(doc) /\ doc[j + 1] = IncludeLine /\ doc[j + 2].kind = "input"
                   THEN Skip(j + 2) ELSE j
        e == Skip(i)
    IN  SubSeq(doc, 1, e) \o include_line(name) \o Rest(doc, e + 1)

\* marker.replace(&main, format!("% paperx:sections\n{}", include_line)):
\* the first match is replaced. The match is the marker line with the blank
\* lines after it, up to but not including the last line feed before the next
\* line that is not blank (all of them when the text ends there).
replace_marker(doc, name) ==
    LET i == FirstMatch(doc, "marker")
        k == BlankRun(doc, i)
    IN  IF i + k = Len(doc)
        THEN SubSeq(doc, 1, i - 1) \o <<MarkerLine>> \o include_line(name)
        ELSE SubSeq(doc, 1, i - 1) \o <<MarkerLine>> \o include_line(name)
                \o <<BlankLine>> \o Rest(doc, i + k + 1)

\* Mutant: the directive is written below the terminal directive.
replace_enddoc_below(doc, name) ==
    IF ~is_match(doc, "enddoc") THEN doc
    ELSE LET j == FirstMatch(doc, "enddoc")
         IN  SubSeq(doc, 1, j) \o include_line(name) \o <<BlankLine>> \o Rest(doc, j + 1)

\* enddoc.replace(&main, format!("{}\n\\end{{document}}", include_line)):
\* the first match is replaced, and a text without a match is returned as is.
replace_enddoc(doc, name) ==
    IF ~is_match(doc, "enddoc") THEN doc
    ELSE LET j == FirstMatch(doc, "enddoc")
         IN  SubSeq(doc, 1, j - 1) \o include_line(name) \o <<BlankLine>> \o Rest(doc, j)

\* What the file system does to the file operations of one call: all of them
\* succeed, or one of them fails. File::create truncates, so a main.tex whose
\* writing fails is left empty or with part of the new text.
IoOutcomes ==
    {"ok", "frag_create_err", "frag_write_err", "read_err",
     "main_create_err", "main_write_empty", "main_write_partial"}

Returns(res, doc, secs) == [res |-> res, main |-> doc, sections |-> secs]

\* Mutant: no check that the fragment exists already.
cmd_add_section_overwrite(name, doc, secs, io) ==
    LET spliced == IF is_match(doc, "marker") THEN replace_marker(doc, name)
                   ELSE replace_enddoc(doc, name)
    IN  Returns(Ok("added"), spliced, [secs EXCEPT ![name] = "generated"])

\* Mutant: the call fails when no pattern matches.
cmd_add_section_strict(name, doc, secs, io) ==
    IF secs[name] # "absent" THEN Returns(Err("AlreadyExists"), doc, secs)
    ELSE IF ~is_match(doc, "marker") /\ ~is_match(doc, "enddoc")
    THEN Returns(Err("MalformedDocument"), doc, [secs EXCEPT ![name] = "generated"])
    ELSE Returns(Ok("added"),
                 IF is_match(doc, "marker") THEN replace_marker(doc, name)
                 ELSE replace_enddoc(doc, name),
                 [secs EXCEPT ![name] = "generated"])

\* Mutant: a call that removes the fragment again when a later step fails.
cmd_add_section_cleanup(name, doc, secs, io) ==
    IF secs[name] # "absent" THEN Returns(Err("AlreadyExists"), doc, secs)
    ELSE IF io = "frag_create_err" THEN Returns(Err("IoError"), doc, secs)
    ELSE IF io = "frag_write_err"
    THEN Returns(Err("IoError"), doc, [secs EXCEPT ![name] = "partial"])
    ELSE LET spliced == IF is_match(doc, "marker") THEN replace_marker(doc, name)
                        ELSE replace_enddoc(doc, name)
         IN  IF io = "read_err" \/ io = "main_create_err"
             THEN Returns(Err("IoError"), doc, secs)
             ELSE IF io = "main_write_empty" THEN Returns(Err("IoError"), <<>>, secs)
             ELSE IF io = "main_write_partial"
             THEN Returns(Err("IoError"), SubSeq(spliced, 1, Len(spliced) - 1), secs)
             ELSE Returns(Ok("added"), spliced, [secs EXCEPT ![name] = "generated"])

cmd_add_section(name, doc, secs, io) ==
    \* if path.exists() { return Err(..) }
    IF secs[name] # "absent" THEN Returns(Err("AlreadyExists"), doc, secs)
    \* fs::create_dir_all(..)?; write(&path, ..)?;
    ELSE IF io = "frag_create_err" THEN Returns(Err("IoError"), doc, secs)
    ELSE IF io = "frag_write_err"
    THEN Returns(Err("IoError"), doc, [secs EXCEPT ![name] = "partial"])
    ELSE LET written == [secs EXCEPT ![name] = "generated"]
             \* let mut main = fs::read_to_string(&main_path).context("read main.tex")?;
         IN  IF io = "read_err" THEN Returns(Err("IoError"), doc, written)
             ELSE LET spliced == IF is_match(doc, "marker")
                                 THEN replace_marker(doc, name)
                                 ELSE replace_enddoc(doc, name)
                      \* write(&main_path, &main)?;
                  IN  IF io = "main_create_err" THEN Returns(Err("IoError"), doc, written)
                      ELSE IF io = "main_write_empty" THEN Returns(Err("IoError"), <<>>, written)
                      ELSE IF io = "main_write_partial"
                      THEN Returns(Err("IoError"), SubSeq(spliced, 1, Len(spliced) - 1), written)
                      ELSE Returns(Ok("added"), spliced, written)

\* The calls that ended in an I/O error.
Faults == Cardinality({i \in 1..Len(calls) : calls[i].res.err = "IoError"})

SectionInit ==
    /\ main \in SeqsUpTo(DocLines, MaxDocLen)
    /\ sections \in [Names -> {"absent", "user"}]
    /\ calls = <<>>
    /\ NoBuild
    /\ NoWatch

\* One `paperx add section <name>`.
AddSection ==
    /\ Len(calls) < MaxCalls
    /\ \E name \in Names :
       \E io \in IoOutcomes :
          LET r == cmd_add_section(name, main, sections, io)
          IN  /\ (io # "ok" => Faults < MaxFaults)
              /\ main' = r.main
              /\ sections' = r.sections
              /\ calls' = Append(calls, [name |-> name, res |-> r.res,
                                         pre |-> main, had |-> sections[name],
                                         post |-> r.main, has |-> r.sections[name]])
    /\ UNCHANGED <<bvars, wvars>>

SectionNext == AddSection

SpecSection == SectionInit /\ [][SectionNext]_vars

\* -------------------------------------------------------------- cmd_watch

\* let debounce = Duration::from_millis(400);
debounce == 400

\* Instant::now() - Duration::from_secs(10)
InitialAge == 10000

Handlers == {1, 2}

\* How much time passes in one step of the clock.
Delays == {100, 500}

\* What cmd_build returns to the closure: Ok, or one of its errors (the
\* closure treats every Err alike).
BuildResults == {"ok", "EngineNotFound", "EngineExecution"}

\* Mutant: no debounce, every notification passes the check.
elapsed_exceeds_always(t, since) == TRUE

\* Mutant: a notification passes the check from the debounce interval on.
elapsed_exceeds_inclusive(t, since) == t - since >= debounce

\* last_instant.elapsed() > debounce
elapsed_exceeds(t, since) == t - since > debounce

\* Mutant: a failed rebuild ends the session.
after_build_exit(s, r) == IF r = "ok" THEN s ELSE "aborted"

\* if let Err(e) = cmd_build(engine, &outdir) { eprintln!("build error: {e:#}"); }
after_build(s, r) == s

WatchInit(contexts) ==
    /\ session = "starting"
    /\ handlers = contexts
    /\ now = 0
    /\ last = 0 - InitialAge
    /\ lock = 0
    /\ hpc = [h \in Handlers |-> "idle"]
    /\ hev = [h \in Handlers |-> 0]
    /\ log = <<>>
    /\ NoBuild
    /\ NoSection

\* recommended_watcher(..)? and w.watch(..)? : the subscription is set up, or
\* cmd_watch returns the error.
StartWatch ==
    /\ session = "starting"
    /\ session' \in {"watching", "aborted"}
    /\ UNCHANGED <<handlers, now, last, lock, hpc, hev, log>>
    /\ UNCHANGED <<bvars, svars>>

\* Time passes.
Tick ==
    /\ session = "watching"
    /\ \E d \in Delays :
          /\ now + d <= MaxTime
          /\ now' = now + d
    /\ UNCHANGED <<session, handlers, last, lock, hpc, hev, log>>
    /\ UNCHANGED <<bvars, svars>>

\* The notifications that are being handled and are not in the log yet.
Unlogged == {h \in handlers : hpc[h] = "lock1" \/ hpc[h] = "check"}

\* A notification arrives: the watcher calls the closure with Ok(_evt).
Deliver(h) ==
    /\ session = "watching"
    /\ hpc[h] = "idle"
    /\ Len(log) + Cardinality(Unlogged) <
          (IF Cardinality(handlers) = 1 THEN MaxEvents ELSE MaxConcEvents)
    /\ hpc' = [hpc EXCEPT ![h] = "lock1"]
    /\ UNCHANGED <<session, handlers, now, last, lock, hev, log>>
    /\ UNCHANGED <<bvars, svars>>

\* if let Ok(last_instant) = last_clone.lock()
Lock1(h) ==
    /\ hpc[h] = "lock1"
    /\ lock = 0
    /\ lock' = h
    /\ hpc' = [hpc EXCEPT ![h] = "check"]
    /\ UNCHANGED <<session, handlers, now, last, hev, log>>
    /\ UNCHANGED <<bvars, svars>>

\* A check that restarts the debounce window on a discarded notification too.
CheckElapsed_extend(h) ==
    /\ hpc[h] = "check"
    /\ lock = h
    /\ lock' = 0
    /\ log' = Append(log, [t |-> now, accepted |-> elapsed_exceeds(now, last),
                           ts |-> 0 - 1, build |-> "none"])
    /\ hev' = [hev EXCEPT ![h] = Len(log) + 1]
    /\ hpc' = [hpc EXCEPT ![h] = IF elapsed_exceeds(now, last) THEN "lock2" ELSE "idle"]
    /\ last' = IF elapsed_exceeds(now, last) THEN last ELSE now
    /\ UNCHANGED <<session, handlers, now>>
    /\ UNCHANGED <<bvars, svars>>

\* if last_instant.elapsed() > debounce { drop(last_instant); ..
\* The guard is dropped either way: by drop(), or at the end of the if let.
CheckElapsed(h) ==
    /\ hpc[h] = "check"
    /\ lock = h
    /\ lock' = 0
    /\ log' = Append(log, [t |-> now, accepted |-> elapsed_exceeds(now, last),
                           ts |-> 0 - 1, build |-> "none"])
    /\ hev' = [hev EXCEPT ![h] = Len(log) + 1]
    /\ hpc' = [hpc EXCEPT ![h] = IF elapsed_exceeds(now, last) THEN "lock2" ELSE "idle"]
    /\ UNCHANGED <<session, handlers, now, last>>
    /\ UNCHANGED <<bvars, svars>>

\* if let Ok(mut last_instant) = last_clone.lock()
Lock2(h) ==
    /\ hpc[h] = "lock2"
    /\ lock = 0
    /\ lock' = h
    /\ hpc' = [hpc EXCEPT ![h] = "store"]
    /\ UNCHANGED <<session, handlers, now, last, hev, log>>
    /\ UNCHANGED <<bvars, svars>>

\* A store that keeps the guard while cmd_build runs.
StoreNow_holding(h) ==
    /\ hpc[h] = "store"
    /\ lock = h
    /\ last' = now
    /\ log' = [log EXCEPT ![hev[h]].ts = now, ![hev[h]].build = "running"]
    /\ hpc' = [hpc EXCEPT ![h] = "building"]
    /\ UNCHANGED <<session, handlers, now, hev, lock>>
    /\ UNCHANGED <<bvars, svars>>

\* *last_instant = Instant::now(); the guard is dropped at the end of the
\* block, and cmd_build is called.
StoreNow(h) ==
    /\ hpc[h] = "store"
    /\ lock = h
    /\ last' = now
    /\ lock' = 0
    /\ log' = [log EXCEPT ![hev[h]].ts = now, ![hev[h]].build = "running"]
    /\ hpc' = [hpc EXCEPT ![h] = "building"]
    /\ UNCHANGED <<session, handlers, now, hev>>
    /\ UNCHANGED <<bvars, svars>>

\* A handler that stamps the shared Instant again when the build has ended.
FinishBuild_restamp(h) ==
    /\ hpc[h] = "building"
    /\ \E r \in BuildResults :
          /\ log' = [log EXCEPT ![hev[h]].build = r]
          /\ session' = after_build(session, r)
    /\ hpc' = [hpc EXCEPT ![h] = "idle"]
    /\ last' = now
    /\ UNCHANGED <<handlers, now, lock, hev>>
    /\ UNCHANGED <<bvars, svars>>

\* cmd_build returns, an error is printed, and the closure returns.
FinishBuild(h) ==
    /\ hpc[h] = "building"
    /\ \E r \in BuildResults :
          /\ log' = [log EXCEPT ![hev[h]].build = r]
          /\ session' = after_build(session, r)
    /\ hpc' = [hpc EXCEPT ![h] = "idle"]
    /\ UNCHANGED <<handlers, now, last, lock, hev>>
    /\ UNCHANGED <<bvars, svars>>

WatchNext ==
    \/ StartWatch
    \/ Tick
    \/ \E h \in handlers : Deliver(h)
    \/ \E h \in handlers : Lock1(h)
    \/ \E h \in handlers : CheckElapsed(h)
    \/ \E h \in handlers : Lock2(h)
    \/ \E h \in handlers : StoreNow(h)
    \/ \E h \in handlers : FinishBuild(h)

\* The watcher delivers notifications one at a time, from one context.
SpecWatch == WatchInit({1}) /\ [][WatchNext]_vars

\* Notifications are delivered from two contexts at once.
SpecWatchConc == WatchInit(Handlers) /\ [][WatchNext]_vars

\* ------------------------------------------------- claims about the build

\* The executable named by a preference (the match arms of cmd_build).
preferred(pref) ==
    CASE pref = "Tectonic" -> "tectonic"
      [] pref = "Latexmk"  -> "latexmk"
      [] pref = "Pdflatex" -> "pdflatex"
      [] pref = "Lualatex" -> "lualatex"

\* Position of engine e in a probe list (0 when it is not in it).
IndexOf(o, e) == IF \E i \in 1..Len(o) : o[i] = e
                 THEN Min({i \in 1..Len(o) : o[i] = e}) ELSE 0

\* C3: for every preference and every non-empty set of present binaries,
\* pick_engine returns a present engine, no candidate listed before it in the
\* preference's fallback list is present, and it is the preferred engine
\* whenever the preferred engine's binary is present.
C3_ResolveEarliestPresent ==
    (Returned(engine) /\ present # {}) =>
        /\ engine.ok
        /\ engine.val \in present
        /\ IndexOf(ordered(engine_pref), engine.val) > 0
        /\ \A j \in 1..(IndexOf(ordered(engine_pref), engine.val) - 1) :
              ordered(engine_pref)[j] \notin present
        /\ (preferred(engine_pref) \in present => engine.val = preferred(engine_pref))

\* C3 witness: the preferred binary is absent, a later candidate is present
\* and an earlier fallback is absent too, so the third candidate is returned.
C3_Witness ==
    /\ Returned(engine)
    /\ engine.ok
    /\ preferred(engine_pref) \notin present
    /\ IndexOf(ordered(engine_pref), engine.val) = 3

\* C4: when no candidate binary is present pick_engine fails with
\* EngineNotFound whatever the preference, the build fails, and no subprocess
\* was spawned; a subprocess is only ever spawned for a resolved, present engine.
C4_NoEngineNoSpawn ==
    /\ (Returned(engine) /\ present = {}) =>
          /\ ~engine.ok
          /\ engine.err = "EngineNotFound"
          /\ bpc = "done"
          /\ ~bres.ok
          /\ bres.err = "EngineNotFound"
          /\ spawned = <<>>
    /\ spawned # <<>> => (engine.ok /\ engine.val \in present)

\* C4 witness: a build that reached pick_engine with no binary present.
C4_Witness ==
    /\ bpc = "done"
    /\ Returned(engine)
    /\ present = {}
    /\ engine_pref = "Lualatex"

\* The regular files with the .pdf extension anywhere below outdir.
PdfFiles(tree) == {tree[i] : i \in {k \in 1..Len(tree) : tree[k].ext = "pdf" /\ ~tree[k].isDir}}

C10_WitnessNone ==
    /\ bpc = "done"
    /\ status = "success"
    /\ outtree # <<>>
    /\ PdfFiles(outtree) = {}
    /\ ~bres.ok

\* ------------------------------------------ claims about cmd_add_section

Count(doc, kind) == Cardinality(Matches(doc, kind))

\* The places in doc where the include directive of a section starts.
DirectiveAt(doc, name) ==
    {p \in 1..(Len(doc) - 1) : SubSeq(doc, p, p + 1) = include_line(name)}

\* C5: after two successful calls with different names on a document that
\* holds the marker, the text above the marker is untouched, the marker line
\* is where it was and there are as many marker lines as before (one for a
\* document with one), the second call's directive comes right after the
\* marker, and the first call's directive comes once, below the second's.
C5_TwoInsertionsBelowMarker ==
    \A i \in 1..(Len(calls) - 1) :
        LET c1 == calls[i]
            c2 == calls[i + 1]
            d  == c2.post
        IN  (c1.res.ok /\ c2.res.ok /\ c1.name # c2.name /\ is_match(c1.pre, "marker")) =>
               LET m == FirstMatch(c1.pre, "marker")
               IN  /\ SubSeq(d, 1, m - 1) = SubSeq(c1.pre, 1, m - 1)
                   /\ Len(d) >= m + 4
                   /\ d[m].kind = "marker"
                   /\ Count(d, "marker") = Count(c1.pre, "marker")
                   /\ DirectiveAt(d, c2.name) = {m + 1}
                   /\ Cardinality(DirectiveAt(d, c1.name)) = 1
                   /\ \A p \in DirectiveAt(d, c1.name) : p > m + 2

\* C5 witness: two sections added to a document whose only marker is followed
\* by an empty line and more text.
C5_Witness ==
    /\ Len(calls) = 2
    /\ calls[1].res.ok
    /\ calls[2].res.ok
    /\ calls[1].pre = <<MarkerLine, BlankLine, TextLine>>
    /\ Count(main, "marker") = 1
    /\ DirectiveAt(main, calls[2].name) = {2}
    /\ DirectiveAt(main, calls[1].name) = {5}

\* C6 (as claimed): a call on a document with neither the marker line nor a
\* terminal closing directive does not report success.
C6_MalformedRejected ==
    \A i \in 1..Len(calls) :
        (~is_match(calls[i].pre, "marker") /\ ~is_match(calls[i].pre, "enddoc")) =>
            ~calls[i].res.ok

\* C7: a call whose fragment file exists already fails with AlreadyExists,
\* leaves the fragment file as it was and leaves main.tex as it was.
C7_ExistingSectionRejected ==
    \A i \in 1..Len(calls) :
        calls[i].had # "absent" =>
            /\ ~calls[i].res.ok
            /\ calls[i].res.err = "AlreadyExists"
            /\ calls[i].has = calls[i].had
            /\ calls[i].post = calls[i].pre

\* C7 witness: a call for a section the user wrote, on a document with an anchor.
C7_Witness ==
    \E i \in 1..Len(calls) :
        /\ calls[i].had = "user"
        /\ is_match(calls[i].pre, "marker")
        /\ ~calls[i].res.ok

AcceptedBefore(i) == {j \in 1..(i - 1) : log[j].accepted}

\* The most recently accepted trigger before entry i (0: none).
LastTrigger(i) ==
    IF AcceptedBefore(i) = {} THEN 0
    ELSE CHOOSE j \in AcceptedBefore(i) : \A k \in AcceptedBefore(i) : k <= j

\* The entries whose notification started a rebuild.
Triggers == {i \in 1..Len(log) : log[i].accepted}

\* C1: with notifications handled one after another, the first one starts a
\* rebuild; one checked less than 400 ms after the timestamp of the most
\* recent trigger starts none, one checked more than 400 ms after it starts
\* one; so notifications at 0, 100 and 500 ms, the first one's timestamp taken
\* at 0, give the two triggers at 0 and 500.
C1_DebouncedTriggers ==
    /\ Len(log) >= 1 => log[1].accepted
    /\ \A i \in 2..Len(log) :
          LET j == LastTrigger(i)
          IN  /\ j > 0
              /\ log[j].ts >= 0
              /\ log[i].t - log[j].ts < 400 => ~log[i].accepted
              /\ log[i].t - log[j].ts > 400 => log[i].accepted
    /\ (/\ Len(log) = 3
        /\ log[1].t = 0 /\ log[1].ts = 0
        /\ log[2].t = 100
        /\ log[3].t = 500) => Triggers = {1, 3}

\* C1 witness: notifications checked at 0, 100 and 500 ms.
C1_Witness ==
    /\ Cardinality(handlers) = 1
    /\ Len(log) = 3
    /\ log[1].t = 0 /\ log[1].ts = 0
    /\ log[2].t = 100
    /\ log[3].t = 500
    /\ Triggers = {1, 3}

\* C2 (as claimed): two notifications checked less than one debounce interval
\* apart never both start a rebuild.
C2_NoDoubleTrigger ==
    \A i, j \in Triggers : i < j => log[j].t - log[i].t >= debounce

\* C9: a failed rebuild leaves the session watching, and the next
\* notification checked more than 400 ms after that rebuild's timestamp
\* starts another rebuild.
C9_FailedBuildKeepsWatching ==
    \A i \in 1..Len(log) :
        (log[i].build # "ok" /\ log[i].build # "none" /\ log[i].build # "running") =>
            /\ session = "watching"
            /\ \A j \in (i + 1)..Len(log) :
                  (LastTrigger(j) = i /\ log[j].t - log[i].ts > debounce) => log[j].accepted

\* C9 witness: a rebuild fails because no engine is found, the next one because
\* the engine fails, and a third one is started after that.
C9_Witness ==
    /\ Cardinality(handlers) = 1
    /\ Len(log) = 3
    /\ log[1].build = "EngineNotFound"
    /\ log[2].build = "EngineExecution"
    /\ log[3].accepted
    /\ log[3].ts >= 0

\* --------------------------------------- more claims about the build

\* outDir/<entryStem>.pdf for the entry document paperx.toml names.
EntryPdf == File(<<>>, main_tex, "pdf")

\* C11 (as claimed): after the subprocess succeeds, a build whose outdir holds
\* <entryStem>.pdf returns that path, whatever entry document is configured.
C11_ArtifactAtEntryStem ==
    (bpc = "done" /\ status = "success" /\ exists(outtree, EntryPdf)) =>
        (bres.ok /\ bres.val = EntryPdf)

\* C12 (as claimed): a build whose entry document exists and whose engine
\* resolves has spawned exactly one subprocess, that of the resolved engine,
\* when it returns.
C12_ExactlyOneSubprocess ==
    (bpc = "done" /\ engine.ok) => spawned = <<Command(engine.val)>>

\* C12 (amended): such a build spawns the resolved engine's subprocess once and
\* no other, unless the process cannot be started, and then it fails with the
\* I/O error having spawned nothing. A non-zero exit status ends the build with
\* the execution error, and the artifact is looked for only after a success.
C12_OneSubprocessNoRetry ==
    /\ (bpc = "done" /\ engine.ok) =>
          \/ spawned = <<Command(engine.val)>>
          \/ spawned = <<>> /\ bres = Err("IoError") /\ status = "none"
    /\ spawned # <<>> => (engine.ok /\ spawned = <<Command(engine.val)>>)
    /\ status = "failure" => (bpc = "done" /\ bres = Err("EngineExecution"))
    /\ bpc = "locate" => status = "success"
    /\ (bpc = "done" /\ bres.ok) => status = "success"

\* A failed subprocess while another candidate is on the PATH and the out
\* directory already holds main.pdf.
C12_Witness ==
    /\ bpc = "done"
    /\ status = "failure"
    /\ Cardinality(present) >= 2
    /\ exists(outtree, pdf_path)
    /\ spawned = <<Command(engine.val)>>
    /\ bres = Err("EngineExecution")

\* The process of a resolved engine could not be started.
C12_WitnessSpawnError ==
    /\ bpc = "done"
    /\ engine.ok
    /\ spawned = <<>>
    /\ bres = Err("IoError")

\* --------------------------------------- more claims about the watch session

\* C13 (as claimed): a notification is discarded if and only if it is checked
\* less than 400 ms after the timestamp of the most recent trigger; one checked
\* exactly 400 ms after it starts a rebuild.
C13_DiscardedIffBelowDebounce ==
    \A i \in 2..Len(log) :
        LET j == LastTrigger(i)
        IN  (j > 0 /\ log[j].ts >= 0) =>
                (~log[i].accepted <=> log[i].t - log[j].ts < debounce)

\* The entries whose trigger timestamp has been stored.
Stored == {i \in 1..Len(log) : log[i].ts >= 0}

\* The timestamp of the most recently stored trigger; before the first one,
\* the value cmd_watch starts with.
LastStoredTs ==
    IF Stored = {} THEN 0 - InitialAge
    ELSE log[CHOOSE i \in Stored : \A k \in Stored : k <= i].ts

\* C14: only a trigger writes the last-trigger timestamp, a discarded
\* notification leaves it as it is; so whatever was discarded in between, a
\* notification checked more than 400 ms after the most recent trigger's
\* timestamp starts a rebuild.
C14_DiscardedKeepsTimestamp ==
    /\ last = LastStoredTs
    /\ \A i \in 2..Len(log) :
          LET j == LastTrigger(i)
          IN  (/\ j > 0
               /\ log[j].ts >= 0
               /\ \E k \in (j + 1)..(i - 1) : log[i].t - log[k].t < debounce
               /\ log[i].t - log[j].ts > debounce) => log[i].accepted

\* C14 witness: a trigger at 0, a notification discarded at 300 ms, and a
\* rebuild started at 500 ms, 200 ms after the discarded one.
C14_Witness ==
    /\ Len(log) = 3
    /\ log[1].accepted /\ log[1].ts = 0
    /\ ~log[2].accepted /\ log[2].t = 300
    /\ log[3].accepted /\ log[3].t = 500
    /\ last = 0

\* The handlers whose rebuild is running.
Building == {h \in handlers : hpc[h] = "building"}

\* C15: with notifications handled concurrently, the timestamp lock is never
\* held by a handler whose rebuild is running, and a notification checked more
\* than 400 ms after the timestamp of every earlier trigger starts a rebuild,
\* whether or not an earlier rebuild is still running.
C15_NoMutualExclusion ==
    /\ \A h \in Building : lock # h
    /\ \A i \in 2..Len(log) :
          (/\ AcceptedBefore(i) # {}
           /\ \A k \in AcceptedBefore(i) :
                 log[k].ts >= 0 /\ log[i].t - log[k].ts > debounce) => log[i].accepted

\* C15 witness: two rebuilds in flight at once, the second one started more
\* than 400 ms after the first one's trigger.
C15_Witness ==
    /\ Building = Handlers
    /\ Len(log) = 2
    /\ log[1].build = "running" /\ log[2].build = "running"
    /\ log[2].t - log[1].ts > debounce

\* The entries whose rebuild is running.
InFlight == {i \in 1..Len(log) : log[i].build = "running"}

\* C16: with one delivery context, a rebuild that has been started has its
\* trigger timestamp stored; while a rebuild runs the handler is inside it and
\* handles nothing else, so at most one rebuild is in flight; and a
\* notification starts a rebuild exactly when it is checked more than 400 ms
\* after the stored timestamp of the most recent trigger, however long that
\* trigger's build ran.
C16_SynchronousRebuild ==
    /\ \A i \in 1..Len(log) :
          log[i].build # "none" => (log[i].accepted /\ log[i].ts >= log[i].t)
    /\ Cardinality(InFlight) <= 1
    /\ \A i \in InFlight : i = Len(log) /\ Building = handlers /\ last = log[i].ts
    /\ \A i \in 2..Len(log) :
          LET j == LastTrigger(i)
          IN  /\ j > 0
              /\ log[j].build \notin {"none", "running"}
              /\ log[i].accepted <=> log[i].t - log[j].ts > debounce

\* C16 witness: the first rebuild is over, and a second one is in flight that
\* was started 500 ms after the first one's timestamp.
C16_Witness ==
    /\ Cardinality(handlers) = 1
    /\ Len(log) = 2
    /\ log[1].ts = 0 /\ log[1].build = "ok"
    /\ log[2].t = 500 /\ log[2].build = "running"
    /\ InFlight = {2}

\* --------------------------------------- more claims about add-section

\* C17 (as claimed): after two successful calls on a document that holds the
\* marker, both directives are below the marker and the earlier call's
\* directive is above the later call's.
C17_InsertionOrder ==
    \A i \in 1..(Len(calls) - 1) :
        LET c1 == calls[i]
            c2 == calls[i + 1]
        IN  (c1.res.ok /\ c2.res.ok /\ c1.name # c2.name /\ is_match(c1.pre, "marker")) =>
               /\ DirectiveAt(c2.post, c1.name) # {}
               /\ DirectiveAt(c2.post, c2.name) # {}
               /\ \A p \in DirectiveAt(c2.post, c1.name) :
                     \A q \in DirectiveAt(c2.post, c2.name) :
                         FirstMatch(c1.pre, "marker") < p /\ p < q

\* C17 (amended): the directives accumulate below the marker most recent
\* first: the later call's directive is the one right below the marker, and
\* the earlier call's directive is below it.
C17_ReverseInsertionOrder ==
    \A i \in 1..(Len(calls) - 1) :
        LET c1 == calls[i]
            c2 == calls[i + 1]
        IN  (c1.res.ok /\ c2.res.ok /\ c1.name # c2.name /\ is_match(c1.pre, "marker")) =>
               /\ DirectiveAt(c2.post, c1.name) # {}
               /\ DirectiveAt(c2.post, c2.name) # {}
               /\ \A p \in DirectiveAt(c2.post, c1.name) :
                     \A q \in DirectiveAt(c2.post, c2.name) :
                         FirstMatch(c1.pre, "marker") < q /\ q < p
               /\ DirectiveAt(c1.post, c1.name) = DirectiveAt(c2.post, c2.name)

\* C17 witness: two sections added to a document that ends with its marker.
C17_Witness ==
    /\ Len(calls) = 2
    /\ calls[1].res.ok /\ calls[2].res.ok
    /\ calls[1].pre = <<TextLine, MarkerLine>>
    /\ DirectiveAt(main, calls[2].name) = {3}
    /\ DirectiveAt(main, calls[1].name) = {6}

\* --------------------------------------- the probe lists

\* a is probed before b in the list o.
Before(o, a, b) == IndexOf(o, a) < IndexOf(o, b)

\* C18: the probe list of the build's preference starts with the preferred
\* engine and holds each of the four candidates once; and two candidates that
\* are preferred neither by it nor by another preference come in the same
\* order in both lists.
C18_ProbeLists ==
    LET o == ordered(engine_pref)
    IN  /\ Len(o) = 4
        /\ o[1] = preferred(engine_pref)
        /\ {o[i] : i \in 1..Len(o)} = Engines
        /\ \A i, j \in 1..Len(o) : o[i] = o[j] => i = j
        /\ \A p2 \in EnginePref :
              \A a, b \in Engines \ {preferred(engine_pref), preferred(p2)} :
                  Before(o, a, b) <=> Before(ordered(p2), a, b)

\* C18 witness: a build that prefers lualatex, whose binary is absent, and has
\* the three other binaries resolves to latexmk, the first of the fallbacks.
C18_Witness ==
    /\ bpc = "run"
    /\ engine_pref = "Lualatex"
    /\ present = Engines \ {"lualatex"}
    /\ engine = Ok("latexmk")

\* The calls that wrote their fragment and failed at a later step.
FailedAfterFragment ==
    {i \in 1..Len(calls) : calls[i].res.err = "IoError" /\ calls[i].has = "generated"}

\* The text a call would have written to main.tex.
Spliced(doc, name) ==
    IF is_match(doc, "marker") THEN replace_marker(doc, name)
    ELSE replace_enddoc(doc, name)

\* C19 (as claimed): a call that fails after it wrote its fragment leaves the
\* fragment on disk and main.tex without the section's directive, and a later
\* call with the same name fails because the section exists, main.tex still
\* being without the directive.
C19_FailedCallNeverAddsDirective ==
    \A i \in FailedAfterFragment :
        /\ calls[i].had = "absent"
        /\ DirectiveAt(calls[i].post, calls[i].name) = {}
        /\ \A j \in (i + 1)..Len(calls) :
              calls[j].name = calls[i].name =>
                  /\ calls[j].res = Err("AlreadyExists")
                  /\ DirectiveAt(calls[j].post, calls[i].name) = {}

\* C19 (amended): a call that fails after it wrote its fragment leaves the
\* fragment on disk, and a later call with the same name fails because the
\* section exists and changes nothing. main.tex is as it was, without the
\* directive, unless the failure came while main.tex was being rewritten; then
\* it holds a cut-off beginning of the new text. A failed call that changed
\* main.tex has always left its fragment.
C19_FailedCallKeepsFragment ==
    /\ \A i \in 1..Len(calls) :
          (calls[i].res.err = "IoError" /\ calls[i].post # calls[i].pre) =>
              i \in FailedAfterFragment
    /\ \A i \in FailedAfterFragment :
        /\ calls[i].had = "absent"
        /\ \/ /\ calls[i].post = calls[i].pre
              /\ DirectiveAt(calls[i].post, calls[i].name) = {}
           \/ /\ IsPrefix(calls[i].post, Spliced(calls[i].pre, calls[i].name))
              /\ Len(calls[i].post) < Len(Spliced(calls[i].pre, calls[i].name))
        /\ \A j \in (i + 1)..Len(calls) :
              calls[j].name = calls[i].name =>
                  /\ calls[j].res = Err("AlreadyExists")
                  /\ calls[j].has = "generated"
                  /\ calls[j].post = calls[j].pre

\* C19 witness: main.tex holds the marker and could not be rewritten, and the
\* same section is asked for again.
C19_Witness ==
    /\ Len(calls) = 2
    /\ 1 \in FailedAfterFragment
    /\ is_match(calls[1].pre, "marker")
    /\ calls[1].post = calls[1].pre
    /\ calls[2].name = calls[1].name
    /\ calls[2].res = Err("AlreadyExists")
    /\ DirectiveAt(main, calls[1].name) = {}

\* The rewrite of main.tex was cut off after the directive.
C19_WitnessCutOff ==
    /\ Len(calls) = 2
    /\ 1 \in FailedAfterFragment
    /\ calls[2].name = calls[1].name
    /\ DirectiveAt(main, calls[1].name) # {}

====
